---- MODULE Spec2Model ----
(***************************************************************************)
(* Model of testflow-generation.js: the request locator, the override      *)
(* applicator, the flow assembler (createBrunoJson) and the body example   *)
(* injector (updateRequestBodies).                                         *)
(*                                                                         *)
(* JavaScript objects live in a heap (a sequence of cells, an address is   *)
(* an index), so that "the same object" and "a copy of it" differ.         *)
(* Strings that the code splits or compares (names, folder paths) are      *)
(* sequences of one-character strings.                                     *)
(***************************************************************************)
EXTENDS Integers, Sequences, FiniteSets, TLC

\* ------------------------------------------------------------------ bounds
MaxFlows == 2
MaxSteps == 2
MaxSpecs == 2

\* -------------------------------------------------------------- JS values
\* A JavaScript value: t is its kind, v names its content, n is
\* Object.keys(value).length for an object or an array.
Undefined == [t |-> "undefined", v |-> "", n |-> 0]
Null == [t |-> "null", v |-> "", n |-> 0]
Str(s) == [t |-> "string", v |-> s, n |-> 0]
Num(s) == [t |-> "number", v |-> s, n |-> 0]
Bool(s) == [t |-> "boolean", v |-> s, n |-> 0]
Obj(s, k) == [t |-> "object", v |-> s, n |-> k]
Arr(s, k) == [t |-> "array", v |-> s, n |-> k]

\* typeof value
TypeOf(value) ==
  IF value.t \in {"null", "object", "array"} THEN "object" ELSE value.t

\* Object.keys(value).length
ObjectKeysLength(value) == value.n

\* !!value
Truthy(value) ==
  CASE value.t \in {"undefined", "null"} -> FALSE
    [] value.t = "string" -> value.v # ""
    [] value.t = "number" -> value.v \notin {"0", "NaN"}
    [] value.t = "boolean" -> value.v = "true"
    [] OTHER -> TRUE

\* JSON.parse(JSON.stringify(value)) of one property value: a property whose
\* value is undefined is dropped (it reads back as undefined), NaN and the
\* infinities come back as null, every value JSON can write comes back equal.
JsonRoundTripValue(value) ==
  IF value.t = "number" /\ value.v \in {"NaN", "Infinity"} THEN Null ELSE value

\* ------------------------------------------------------------ the heap
\* A request's `request` object: the four fields a step can override and one
\* it cannot.
NoRequest ==
  [method |-> Undefined, url |-> Undefined, params |-> Undefined,
   script |-> Undefined, body |-> Undefined]

\* One node of a Bruno collection.  hasItems / hasRequest say whether the
\* property exists; items holds the addresses of the children.
Node(type, name, hasItems, items, hasRequest, request) ==
  [type |-> type, name |-> name, hasItems |-> hasItems, items |-> items,
   hasRequest |-> hasRequest, request |-> request]

Folder(name, items) == Node("folder", name, TRUE, items, FALSE, NoRequest)
Request(type, name, request) == Node(type, name, FALSE, <<>>, TRUE, request)

NoRef == 0
Root == 1

\* ------------------------------------------------------------ strings
Slash == "/"

\* String.prototype.split("/") on a sequence of characters: always at least
\* one segment, an empty one where two separators touch or the string ends.
RECURSIVE SplitFrom(_, _)
SplitFrom(chars, current) ==
  IF chars = <<>> THEN <<current>>
  ELSE IF Head(chars) = Slash THEN <<current>> \o SplitFrom(Tail(chars), <<>>)
  ELSE SplitFrom(Tail(chars), Append(current, Head(chars)))

Split(chars) == SplitFrom(chars, <<>>)

\* A string argument that may be absent (undefined).
Absent == [present |-> FALSE, chars |-> <<>>]
Text(chars) == [present |-> TRUE, chars |-> chars]

\* if (folderName): undefined and "" are falsy
TruthyText(s) == s.present /\ s.chars # <<>>

\* ------------------------------------------------------- request locator
Returned(ref) == [threw |-> "", ref |-> ref]
Thrown(kind) == [threw |-> kind, ref |-> NoRef]

\* items.find(item => item.name === name): the first element of that name,
\* whatever its type; NoRef is undefined.
RECURSIVE FindByName(_, _, _)
FindByName(h, items, name) ==
  IF items = <<>> THEN NoRef
  ELSE IF h[Head(items)].name = name THEN Head(items)
  ELSE FindByName(h, Tail(items), name)

findBrunoFolderInItems(h, folderName, items) == FindByName(h, items, folderName)

\* The loop of acquireBrunoFolderByName over the path's segments.  Reading
\* `.items` of undefined (the previous segment matched nothing) and calling
\* `.find` on an undefined `items` (the previous segment matched a node with
\* no children list) are TypeErrors.
RECURSIVE WalkSegments(_, _, _)
WalkSegments(h, segments, innermostFolder) ==
  IF segments = <<>> THEN Returned(innermostFolder)
  ELSE IF innermostFolder = NoRef THEN Thrown("TypeError")
  ELSE IF ~h[innermostFolder].hasItems THEN Thrown("TypeError")
  ELSE WalkSegments(h, Tail(segments),
         findBrunoFolderInItems(h, Head(segments), h[innermostFolder].items))

\* A resolver without the check of line 339.
acquireBrunoFolderByNameAnySize(h, folderName, brunoMasterCollection) ==
  IF \/ ~h[brunoMasterCollection].hasItems
     \/ Len(h[brunoMasterCollection].items) = 0
  THEN Thrown("InvalidCollection")
  ELSE LET walked == WalkSegments(h, Split(folderName.chars), brunoMasterCollection) IN
       IF walked.threw # "" THEN walked
       ELSE IF walked.ref = NoRef THEN Thrown("FolderNotFound")
       ELSE walked

acquireBrunoFolderByName(h, folderName, brunoMasterCollection) ==
  IF \/ ~h[brunoMasterCollection].hasItems
     \/ Len(h[brunoMasterCollection].items) = 0
  THEN Thrown("InvalidCollection")
  ELSE LET walked == WalkSegments(h, Split(folderName.chars), brunoMasterCollection) IN
       IF walked.threw # "" THEN walked
       ELSE IF walked.ref = NoRef THEN Thrown("FolderNotFound")
       ELSE IF ~h[walked.ref].hasItems \/ Len(h[walked.ref].items) = 0
            THEN Thrown("EmptyFolder")
       ELSE walked

TypeErrorRef == -1

\* A search that looks at the requests of a level before its folders.
RECURSIVE SearchFoldersOnly(_, _, _)
SearchFoldersOnly(h, requestName, items) ==
  IF items = <<>> THEN NoRef
  ELSE LET item == h[Head(items)]
           here == {k \in 1..Len(item.items) :
                      /\ h[item.items[k]].type = "http-request"
                      /\ h[item.items[k]].name = requestName}
           found == IF item.type # "folder" THEN NoRef
                    ELSE IF here # {}
                         THEN item.items[CHOOSE k \in here : \A m \in here : k <= m]
                    ELSE SearchFoldersOnly(h, requestName, item.items)
       IN IF found # NoRef THEN found
          ELSE SearchFoldersOnly(h, requestName, Tail(items))

SearchItemsLevelFirst(h, requestName, items) ==
  LET here == {k \in 1..Len(items) :
                 /\ h[items[k]].type = "http-request"
                 /\ h[items[k]].name = requestName}
  IN IF here # {} THEN items[CHOOSE k \in here : \A m \in here : k <= m]
     ELSE SearchFoldersOnly(h, requestName, items)

\* findRequestByName over the items of one collection or folder: NoRef is
\* null, TypeErrorRef a `for ... of` over an undefined items.
RECURSIVE SearchItems(_, _, _)
SearchItems(h, requestName, items) ==
  IF items = <<>> THEN NoRef
  ELSE LET item == h[Head(items)] IN
       IF item.type = "http-request" /\ item.name = requestName THEN Head(items)
       ELSE IF item.type = "folder" THEN
         LET found == IF item.hasItems
                      THEN SearchItems(h, requestName, item.items)
                      ELSE TypeErrorRef
         IN IF found # NoRef THEN found
            ELSE SearchItems(h, requestName, Tail(items))
       ELSE SearchItems(h, requestName, Tail(items))

findRequestByName(h, requestName, brunoCollection) ==
  IF h[brunoCollection].hasItems
  THEN SearchItems(h, requestName, h[brunoCollection].items)
  ELSE TypeErrorRef

acquireBrunoRequestByNameAnywhere(h, requestName, folderName, brunoCollection) ==
  LET request == findRequestByName(h, requestName, brunoCollection) IN
  IF request = TypeErrorRef THEN Thrown("TypeError")
  ELSE IF request = NoRef THEN Thrown("RequestNotFound")
  ELSE Returned(request)

acquireBrunoRequestByName(h, requestName, folderName, brunoCollection) ==
  IF TruthyText(folderName)
  THEN LET folder == acquireBrunoFolderByName(h, folderName, brunoCollection) IN
       IF folder.threw # "" THEN folder
       ELSE LET request == FindByName(h, h[folder.ref].items, requestName) IN
            IF request = NoRef THEN Thrown("RequestNotFound") ELSE Returned(request)
  ELSE LET request == findRequestByName(h, requestName, brunoCollection) IN
       IF request = TypeErrorRef THEN Thrown("TypeError")
       ELSE IF request = NoRef THEN Thrown("RequestNotFound")
       ELSE Returned(request)

\* ------------------------------------------------- request collections
\* Names and folder paths the inputs are drawn from.
NameA == <<"A">>
NameB == <<"B">>
NameX == <<"X">>
NameY == <<"Y">>
NameZ == <<"Z">>

\* The `request` object of the request node stored at address a: its url
\* tells the nodes apart.
UrlOf == <<"/u1", "/u2", "/u3", "/u4", "/u5", "/u6", "/u7">>

RequestAt(a) ==
  [method |-> Str("GET"), url |-> Str(UrlOf[a]), params |-> Arr("params", 1),
   script |-> Obj("{}", 0), body |-> Obj("body", 2)]

\* What JSON.parse(masterBrunoCollectionString) can hold: the collection at
\* address 1 with the nodes 2 and 3, node 2 a folder "A" holding 4 and 5,
\* node 3 holding 6 and node 4 holding 7 when they are folders.  Names repeat
\* between and within folders, a folder may be empty, and a request is
\* tagged "http-request" or "http".
RequestTypes == {"http-request", "http"}

Collections ==
  { << Folder(<<"root">>, <<2, 3>>),
       Folder(NameA, <<4, 5>>),
       n3, n4,
       Request(t5, m5, RequestAt(5)),
       Request(t6, m6, RequestAt(6)),
       Request(t7, m7, RequestAt(7)) >> :
      n3 \in {Folder(m, <<6>>) : m \in {NameA, NameB}}
             \cup {Request("http-request", m, RequestAt(3)) : m \in {NameA, NameB}},
      n4 \in {Folder(m, k) : m \in {NameX, NameB}, k \in {<<7>>, <<>>}}
             \cup {Request(t, m, RequestAt(4)) : t \in RequestTypes, m \in {NameX, NameB}},
      t5 \in RequestTypes, m5 \in {NameX, NameY},
      t6 \in RequestTypes, m6 \in {NameX, NameY},
      t7 \in RequestTypes, m7 \in {NameX, NameY} }

RequestNames == {NameX, NameY, NameZ}

FolderPaths ==
  {Absent, Text(<<>>)} \cup
  {Text(c) : c \in {<<"A">>, <<"B">>, <<"Q">>,
                    <<"A", "/", "B">>, <<"A", "/", "X">>, <<"A", "/", "Q">>,
                    <<"Q", "/", "A">>, <<"A", "/">>, <<"A", "/", "Y", "/", "X">>}}

\* --------------------------------------------------- override applicator
\* JSON.parse(JSON.stringify(node)): a fresh object for the node and for
\* every node below it, appended to the heap; ref is the copy's address.
RECURSIVE DeepCopy(_, _)
RECURSIVE DeepCopyItems(_, _)
DeepCopyItems(h, items) ==
  IF items = <<>> THEN [heap |-> h, refs |-> <<>>]
  ELSE LET first == DeepCopy(h, Head(items))
           rest == DeepCopyItems(first.heap, Tail(items))
       IN [heap |-> rest.heap, refs |-> <<first.ref>> \o rest.refs]

DeepCopy(h, a) ==
  LET kids == DeepCopyItems(h, h[a].items)
      copy == [h[a] EXCEPT
                 !.items = kids.refs,
                 !.request = [k \in DOMAIN h[a].request |->
                                JsonRoundTripValue(h[a].request[k])]]
  IN [heap |-> Append(kids.heap, copy), ref |-> Len(kids.heap) + 1]

\* const updatedRequest = JSON.parse(JSON.stringify(originalRequest))
CloneOriginalShared(h, originalRequest) == [heap |-> h, ref |-> originalRequest]

CloneOriginal(h, originalRequest) == DeepCopy(h, originalRequest)

\* The validate function of each entry of updateFields.
ValidateAlways(sourceKey, value) == TRUE

ValidateBodyNotNull(sourceKey, value) ==
  IF sourceKey = "body" THEN value # Undefined /\ value # Null
  ELSE value # Undefined

Validate(sourceKey, value) ==
  IF sourceKey = "body"
  THEN /\ value # Undefined
       /\ value # Null
       /\ ~(TypeOf(value) = "object" /\ ObjectKeysLength(value) = 0)
  ELSE value # Undefined

updateFields ==
  << [sourceKey |-> "parameters", targetKey |-> "params"],
     [sourceKey |-> "script", targetKey |-> "script"],
     [sourceKey |-> "url", targetKey |-> "url"],
     [sourceKey |-> "body", targetKey |-> "body"] >>

\* updateFields.forEach(...) from entry k on, writing into the object at
\* address u.  Assigning a property of an undefined `request` is a TypeError.
RECURSIVE ForEachUpdate(_, _, _, _)
ForEachUpdate(h, u, requestSpec, k) ==
  IF k > Len(updateFields) THEN [heap |-> h, threw |-> "", ref |-> u]
  ELSE LET value == requestSpec[updateFields[k].sourceKey] IN
       IF Validate(updateFields[k].sourceKey, value)
       THEN IF ~h[u].hasRequest THEN [heap |-> h, threw |-> "TypeError", ref |-> NoRef]
            ELSE ForEachUpdate(
                   [h EXCEPT ![u].request[updateFields[k].targetKey] = value],
                   u, requestSpec, k + 1)
       ELSE ForEachUpdate(h, u, requestSpec, k + 1)

applyRequestUpdates(h, originalRequest, requestSpec) ==
  LET updatedRequest == CloneOriginal(h, originalRequest)
  IN ForEachUpdate(updatedRequest.heap, updatedRequest.ref, requestSpec, 1)

\* One entry of a test flow's `requests`.
StepSpec(request_id, file_path, seq, parameters, script, url, body) ==
  [request_id |-> request_id, file_path |-> file_path, seq |-> seq,
   parameters |-> parameters, script |-> script, url |-> url, body |-> body]

\* -------------------------------------------------- example extractor
\* An OpenAPI operation: operationId, and what it declares on the way to
\* requestBody.content['application/json'].examples.  examples is the list
\* of the examples map's entries in the order Object.keys gives them.
Operation(operationId, hasRequestBody, hasContent, hasJson, hasExamples, examples) ==
  [operationId |-> operationId, hasRequestBody |-> hasRequestBody,
   hasContent |-> hasContent, hasJson |-> hasJson,
   hasExamples |-> hasExamples, examples |-> examples]

Example(key, value) == [key |-> key, value |-> value]

NoOperation == Operation(<<>>, FALSE, FALSE, FALSE, FALSE, <<>>)

\* The operations of paths (a sequence of path items, each a sequence of
\* operations) in the order the two for-in loops visit them.
RECURSIVE Flatten(_)
Flatten(paths) == IF paths = <<>> THEN <<>> ELSE Head(paths) \o Flatten(Tail(paths))

\* getOpenAPIRequestSpec: found is FALSE for the returned null.
RECURSIVE FirstOperation(_, _)
FirstOperation(operations, targetOperationId) ==
  IF operations = <<>> THEN [found |-> FALSE, operation |-> NoOperation]
  ELSE IF Head(operations).operationId = targetOperationId
       THEN [found |-> TRUE, operation |-> Head(operations)]
  ELSE FirstOperation(Tail(operations), targetOperationId)

getOpenAPIRequestSpec(openApiSpec, targetOperationId) ==
  FirstOperation(Flatten(openApiSpec.paths), targetOperationId)

Value(value) == [threw |-> "", value |-> value]
ThrownValue(kind) == [threw |-> kind, value |-> Undefined]

\* getOASExampleValueFor: each property read of null or undefined, and
\* Object.keys(undefined), is a TypeError.
getOASExampleValueFor(openApiSpec, targetOperationId) ==
  LET spec == getOpenAPIRequestSpec(openApiSpec, targetOperationId)
      operation == spec.operation
  IN IF ~spec.found THEN ThrownValue("TypeError")
     ELSE IF ~operation.hasRequestBody THEN ThrownValue("TypeError")
     ELSE IF ~operation.hasContent THEN ThrownValue("TypeError")
     ELSE IF ~operation.hasJson THEN ThrownValue("TypeError")
     ELSE IF ~operation.hasExamples THEN ThrownValue("TypeError")
     ELSE IF operation.examples = <<>> THEN ThrownValue("TypeError")
     ELSE Value(operation.examples[1].value)

\* --------------------------------------------------- body example injector
\* The text JSON.stringify(value, null, 2) writes for the objects and arrays
\* of the model, by their compact text.
PrettyPrinted ==
  [compact \in {"{\"id\":\"abc\"}", "{\"id\":\"xyz\"}", "{}", "[]", "[1]"} |->
     CASE compact = "{\"id\":\"abc\"}" -> "{\n  \"id\": \"abc\"\n}"
       [] compact = "{\"id\":\"xyz\"}" -> "{\n  \"id\": \"xyz\"\n}"
       [] compact = "{}" -> "{}"
       [] compact = "[]" -> "[]"
       [] compact = "[1]" -> "[\n  1\n]"]

\* JSON.stringify(value, null, 2), of a value JSON can write; a string of the
\* model has no character that needs an escape.
JSONStringify(value) ==
  CASE value.t = "string" -> "\"" \o value.v \o "\""
    [] value.t \in {"number", "boolean"} -> value.v
    [] value.t = "null" -> "null"
    [] OTHER -> PrettyPrinted[value.v]

\* A request node of a converted collection: its name and request.body.
BodyRequest(name, mode, json) ==
  [type |-> "http-request", name |-> name,
   request |-> [body |-> [mode |-> mode, json |-> json]]]

BodyFolder(name, items) == [type |-> "folder", name |-> name, items |-> items]

\* JSON.parse(JSON.stringify(brunoCollection)), of a collection that was
\* itself made of parsed JSON and of strings.
JsonRoundTripCollection(collection) ==
  [collection EXCEPT !.items =
     [f \in 1..Len(collection.items) |->
        [collection.items[f] EXCEPT !.items =
           [r \in 1..Len(collection.items[f].items) |->
              [collection.items[f].items[r] EXCEPT
                 !.request.body.json = JsonRoundTripValue(@)]]]]]

\* Lines 381-388 for one request: what it is after them, or the throw.
InjectExampleOrKeepText(openApiSpec, request) ==
  IF request.request.body.mode = "json"
  THEN LET exampleValue == getOASExampleValueFor(openApiSpec, request.name) IN
       IF exampleValue.threw # "" THEN [threw |-> exampleValue.threw, request |-> request]
       ELSE [threw |-> "",
             request |-> [request EXCEPT !.request.body.json =
                            Str(JSONStringify(IF Truthy(exampleValue.value)
                                              THEN exampleValue.value
                                              ELSE request.request.body.json))]]
  ELSE [threw |-> "", request |-> request]

InjectExample(openApiSpec, request) ==
  IF request.request.body.mode = "json"
  THEN LET exampleValue == getOASExampleValueFor(openApiSpec, request.name) IN
       IF exampleValue.threw # "" THEN [threw |-> exampleValue.threw, request |-> request]
       ELSE IF Truthy(exampleValue.value)
            THEN [threw |-> "",
                  request |-> [request EXCEPT !.request.body.json =
                                 Str(JSONStringify(exampleValue.value))]]
       ELSE [threw |-> "", request |-> request]
  ELSE [threw |-> "", request |-> request]

\* The inner loop (line 379) over the requests of one folder, from the first
\* of `items` on; done holds the requests already passed.
RECURSIVE InjectRequests(_, _, _)
InjectRequests(openApiSpec, done, items) ==
  IF items = <<>> THEN [threw |-> "", items |-> done]
  ELSE LET first == InjectExample(openApiSpec, Head(items)) IN
       IF first.threw # ""
       THEN [threw |-> first.threw, items |-> done \o items]
       ELSE InjectRequests(openApiSpec, Append(done, first.request), Tail(items))

\* The outer loop (line 377) over the top-level folders.
RECURSIVE InjectFolders(_, _, _)
InjectFolders(openApiSpec, done, folders) ==
  IF folders = <<>> THEN [threw |-> "", items |-> done]
  ELSE LET first == InjectRequests(openApiSpec, <<>>, Head(folders).items) IN
       IF first.threw # ""
       THEN [threw |-> first.threw,
             items |-> Append(done, [Head(folders) EXCEPT !.items = first.items])
                         \o Tail(folders)]
       ELSE InjectFolders(openApiSpec,
                          Append(done, [Head(folders) EXCEPT !.items = first.items]),
                          Tail(folders))

\* `folders` as the argument itself, no copy made.
CloneCollectionShared(h, brunoCollection) == [heap |-> h, ref |-> brunoCollection]

\* Line 375: `folders` is a new object, the JSON round trip of the argument
\* at address brunoCollection; it shares nothing with it.
CloneCollection(h, brunoCollection) ==
  [heap |-> Append(h, JsonRoundTripCollection(h[brunoCollection])), ref |-> Len(h) + 1]

\* updateRequestBodies on the collection at address brunoCollection: the
\* objects after the call, threw, and the address of `folders` (returned when
\* nothing was thrown). The loops write into `folders`, request by request.
updateRequestBodies(h, openApiSpec, brunoCollection) ==
  LET folders == CloneCollection(h, brunoCollection)
      looped == InjectFolders(openApiSpec, <<>>, folders.heap[folders.ref].items)
  IN [heap |-> [folders.heap EXCEPT ![folders.ref].items = looped.items],
      threw |-> looped.threw,
      ref |-> folders.ref]

\* ------------------------------------------------------------- state
VARIABLES
  heap,          \* the objects: the parsed master collection, then the copies
                 \* (for the injector: the collection handed in, then the copies)
  heap0,         \* the heap as JSON.parse(masterBrunoCollectionString) left it
  testFlowSpec,  \* the test_flows of the specification, as far as they were read
  pc,            \* where createBrunoJson is: "flows" or "done"
  requests,      \* createBrunoJson's `requests` of the flow being assembled
  testFlows,     \* createBrunoJson's `testFlows`
  returned,      \* what createBrunoJson returned
  query,         \* the requestName and folderName of one lookup
  located,       \* what acquireBrunoRequestByName(query) returned or threw
  resolved,      \* what acquireBrunoFolderByName(query.folderName) returned or threw
  original,      \* the address of the originalRequest of one applyRequestUpdates call
  step,          \* the requestSpec of that call
  overridden,    \* what that call returned or threw
  openApiSpec,   \* the OpenAPI document handed to updateRequestBodies
  brunoCollection,  \* the collection handed to its first call, as it was then
  injected,      \* what each call of updateRequestBodies returned or threw
  results,       \* the address of `folders` of each call
  oasFiles,      \* how many .json files the directory "oas" holds
  testCollection,  \* the shape of what createBrunoJson returns: flows, environments
  jsonFiles,     \* mergeOpenApiCollections' `jsonFiles`, once readdir listed them
  files,         \* the paths written or made so far
  threads,       \* each async function's call: its state and the operation it awaits
  pipeline       \* the await testGenerationPipeline stands at, or how it settled

heapVars == <<heap, heap0>>
asmVars == <<testFlowSpec, pc, requests, testFlows, returned>>
locVars == <<query, located, resolved>>
ovVars == <<original, step, overridden>>
injVars == <<openApiSpec, brunoCollection, injected, results>>

pipeVars == <<oasFiles, testCollection, jsonFiles, files, threads, pipeline>>

vars == <<heapVars, asmVars, locVars, ovVars, injVars, pipeVars>>

\* A call that was not made yet.
Pending == [threw |-> "pending", ref |-> NoRef]

NoReturn == [defined |-> FALSE, name |-> <<>>, version |-> "", items |-> <<>>]

NoStep == StepSpec(<<>>, Absent, 0, Undefined, Undefined, Undefined, Undefined)

\* The variables of the operations a specification does not run.
NoAssembly ==
  /\ testFlowSpec = <<>>
  /\ pc = "idle"
  /\ requests = <<>>
  /\ testFlows = <<>>
  /\ returned = NoReturn

NoLookup ==
  /\ query = [requestName |-> <<>>, folderName |-> Absent]
  /\ located = Pending
  /\ resolved = Pending

NoOverride ==
  /\ original = NoRef
  /\ step = NoStep
  /\ overridden = Pending

NoInjection ==
  /\ openApiSpec = [paths |-> <<>>]
  /\ brunoCollection = [name |-> <<>>, items |-> <<>>]
  /\ injected = <<>>
  /\ results = <<>>

\* The async functions of the pipeline; the last four are the writers.
Stages == {"convertOpenApiToBruno", "mergeOpenApiCollections", "createBrunoCollection"}

Writers == {"createTestFlows", "createEnvironments", "createBrunoRoot", "createBrunoMetadata"}

\* A call that was not made, one that awaits its operation number `at`, and
\* one whose promise settled.
Idle == [state |-> "idle", at |-> 0]

Awaiting(at) == [state |-> "running", at |-> at]

Fulfilled == [state |-> "fulfilled", at |-> 0]

Rejected == [state |-> "rejected", at |-> 0]

NoPipeline ==
  /\ oasFiles = 0
  /\ testCollection = [items |-> <<>>, hasEnvironments |-> FALSE, environments |-> 0]
  /\ jsonFiles = <<>>
  /\ files = {}
  /\ threads = [fn \in Stages \cup Writers |-> Idle]
  /\ pipeline = "idle"

\* ------------------------------------------------------ flow assembler
\* The collections createBrunoJson is run on: every request tagged
\* "http-request"; in the second, folder "A" holds a folder "X" before its
\* request "X".
AssemblyCollections ==
  { << Folder(<<"root">>, <<2, 3>>), Folder(NameA, <<4, 5>>), Folder(NameB, <<6>>),
       Request("http-request", NameX, RequestAt(4)),
       Request("http-request", NameY, RequestAt(5)),
       Request("http-request", NameX, RequestAt(6)),
       Request("http-request", NameY, RequestAt(7)) >>,
    << Folder(<<"root">>, <<2, 3>>), Folder(NameA, <<4, 5>>), Folder(NameB, <<6>>),
       Folder(NameX, <<7>>),
       Request("http-request", NameX, RequestAt(5)),
       Request("http-request", NameY, RequestAt(6)),
       Request("http-request", NameX, RequestAt(7)) >> }

\* The steps a flow is made of.  The first and the third name a request both
\* collections hold, the second a request of folder "B" that only the first
\* collection holds, the last two a request and a folder neither holds.
FlowSteps ==
  { StepSpec(NameX, Absent, 2, Undefined, Undefined, Str("/new"), Obj("{}", 0)),
    StepSpec(NameX, Text(<<"B">>), 1, Null, Undefined, Undefined, Obj("newBody", 1)),
    StepSpec(NameY, Absent, 3, Undefined, Obj("script", 1), Undefined, Undefined),
    StepSpec(NameZ, Absent, 1, Undefined, Undefined, Undefined, Undefined),
    StepSpec(NameX, Text(<<"Q">>), 2, Undefined, Undefined, Str("/q"), Undefined) }

\* The flow_name and seq a flow can have: the seq of a flow says nothing of
\* its place among the flows.
FlowHeads == {[flow_name |-> <<"f", "1">>, seq |-> 2],
              [flow_name |-> <<"f", "2">>, seq |-> 1]}

\* The flow whose steps are being read: flow_name, seq and root are read
\* when its folder is made.
OpenFlow(steps) == [flow_name |-> <<>>, seq |-> 0, root |-> Undefined,
                    requests |-> steps, closed |-> FALSE]

SuiteName == <<"S">>

Init ==
  /\ heap \in AssemblyCollections
  /\ heap0 = heap
  /\ testFlowSpec = <<>>
  /\ pc = "flows"
  /\ requests = <<>>
  /\ testFlows = <<>>
  /\ returned = NoReturn
  /\ NoLookup
  /\ NoOverride
  /\ NoInjection
  /\ NoPipeline

\* requests.push(requestItem), testFlows.push(testFlowFolder)
Unshift(array, item) == <<item>> \o array

Push(array, item) == Append(array, item)

\* The flows read so far, the last one still open or not.
FlowOpen == testFlowSpec # <<>> /\ ~testFlowSpec[Len(testFlowSpec)].closed
ClosedFlows == IF FlowOpen THEN Len(testFlowSpec) - 1 ELSE Len(testFlowSpec)
StepsRead == IF FlowOpen THEN Len(testFlowSpec[Len(testFlowSpec)].requests) ELSE 0

\* The test_flows with requestSpec read as the next step of the current flow.
WithStep(requestSpec) ==
  IF FlowOpen
  THEN [testFlowSpec EXCEPT ![Len(testFlowSpec)].requests = Append(@, requestSpec)]
  ELSE Append(testFlowSpec, OpenFlow(<<requestSpec>>))

\* Lines 135-143: the request item made of a step and the updated request;
\* `request` is the address of the object whose `request` property it holds.
RequestItem(requestSpec, updatedRequest) ==
  [type |-> "http", name |-> requestSpec.request_id,
   filename |-> requestSpec.request_id \o <<".bru">>,
   seq |-> requestSpec.seq, request |-> updatedRequest]

\* One pass of the inner loop (lines 132-146) when nothing throws.
AssembleStep ==
  /\ pc = "flows"
  /\ ClosedFlows < MaxFlows
  /\ StepsRead < MaxSteps
  /\ \E requestSpec \in FlowSteps :
       LET originalRequest ==
             acquireBrunoRequestByName(heap, requestSpec.request_id,
                                       requestSpec.file_path, Root)
           updated == applyRequestUpdates(heap, originalRequest.ref, requestSpec)
       IN /\ originalRequest.threw = ""
          /\ updated.threw = ""
          /\ testFlowSpec' = WithStep(requestSpec)
          /\ heap' = updated.heap
          /\ requests' = Push(requests, RequestItem(requestSpec, updated.ref))
  /\ UNCHANGED <<pipeVars, heap0, pc, testFlows, returned, locVars, ovVars, injVars>>

\* A pass that logs the failure and goes on with the next step.
AssembleStepSkips ==
  /\ pc = "flows"
  /\ ClosedFlows < MaxFlows
  /\ StepsRead < MaxSteps
  /\ \E requestSpec \in FlowSteps :
       /\ acquireBrunoRequestByName(heap, requestSpec.request_id,
                                    requestSpec.file_path, Root).threw # ""
       /\ testFlowSpec' = WithStep(requestSpec)
  /\ UNCHANGED <<pipeVars, heapVars, pc, requests, testFlows, returned, locVars, ovVars, injVars>>

\* One pass of the inner loop when acquireBrunoRequestByName or
\* applyRequestUpdates throws: the catch of line 174 logs, and the function
\* returns undefined.
AssembleStepThrows ==
  /\ pc = "flows"
  /\ ClosedFlows < MaxFlows
  /\ StepsRead < MaxSteps
  /\ \E requestSpec \in FlowSteps :
       LET originalRequest ==
             acquireBrunoRequestByName(heap, requestSpec.request_id,
                                       requestSpec.file_path, Root)
           updated == IF originalRequest.threw = ""
                      THEN applyRequestUpdates(heap, originalRequest.ref, requestSpec)
                      ELSE [heap |-> heap, threw |-> originalRequest.threw, ref |-> NoRef]
       IN /\ updated.threw # ""
          /\ testFlowSpec' = WithStep(requestSpec)
          /\ heap' = updated.heap
  /\ pc' = "done"
  /\ returned' = NoReturn
  /\ UNCHANGED <<pipeVars, heap0, requests, testFlows, locVars, ovVars, injVars>>

\* Lines 148-157: the steps of the flow are exhausted, its folder is pushed.
CloseFlow ==
  /\ pc = "flows"
  /\ ClosedFlows < MaxFlows
  /\ \E head \in FlowHeads :
       LET root == Obj("root", 1)
           testFlow == [flow_name |-> head.flow_name, seq |-> head.seq, root |-> root,
                        requests |-> IF FlowOpen
                                     THEN testFlowSpec[Len(testFlowSpec)].requests
                                     ELSE <<>>,
                        closed |-> TRUE]
           testFlowFolder == [type |-> "folder", name |-> testFlow.flow_name,
                              filename |-> testFlow.flow_name, seq |-> testFlow.seq,
                              root |-> testFlow.root, items |-> requests]
       IN /\ testFlowSpec' = IF FlowOpen
                             THEN [testFlowSpec EXCEPT ![Len(testFlowSpec)] = testFlow]
                             ELSE Append(testFlowSpec, testFlow)
          /\ testFlows' = Push(testFlows, testFlowFolder)
  /\ requests' = <<>>
  /\ UNCHANGED <<pipeVars, heap, heap0, pc, returned, locVars, ovVars, injVars>>

\* Lines 160-173: the flows are exhausted, the master collection is returned.
ReturnMaster ==
  /\ pc = "flows"
  /\ ~FlowOpen
  /\ pc' = "done"
  /\ returned' = [defined |-> TRUE, name |-> SuiteName, version |-> "1",
                  items |-> testFlows]
  /\ UNCHANGED <<pipeVars, heap, heap0, testFlowSpec, requests, testFlows, locVars, ovVars, injVars>>

Next == AssembleStep \/ AssembleStepThrows \/ CloseFlow \/ ReturnMaster

Spec == Init /\ [][Next]_vars

\* ------------------------------------------- the locator, call by call
\* acquireBrunoRequestByName and acquireBrunoFolderByName on every
\* collection of Collections, for every request name and folder path.
InitLocate ==
  /\ heap \in Collections
  /\ heap0 = heap
  /\ query \in [requestName : RequestNames, folderName : FolderPaths]
  /\ located = Pending
  /\ resolved = Pending
  /\ NoAssembly
  /\ NoOverride
  /\ NoInjection
  /\ NoPipeline

LocateRequest ==
  /\ located = Pending
  /\ located' = acquireBrunoRequestByName(heap, query.requestName,
                                          query.folderName, Root)
  /\ UNCHANGED <<pipeVars, heapVars, asmVars, query, resolved, ovVars, injVars>>

\* folderName.split takes a string: the call is made on a present path.
ResolveFolder ==
  /\ resolved = Pending
  /\ query.folderName.present
  /\ resolved' = acquireBrunoFolderByName(heap, query.folderName, Root)
  /\ UNCHANGED <<pipeVars, heapVars, asmVars, query, located, ovVars, injVars>>

NextLocate == LocateRequest \/ ResolveFolder

SpecLocate == InitLocate /\ [][NextLocate]_vars

\* ------------------------------------- the override applicator, call by call
\* The requests applyRequestUpdates is given: properties present or not.
OriginalRequests ==
  { [method |-> Str("GET"), url |-> Str("/old"), params |-> p, script |-> s, body |-> b] :
      p \in {Undefined, Arr("params", 1)},
      s \in {Undefined, Obj("script", 1)},
      b \in {Undefined, Null, Obj("body", 2), Str("text")} }

\* The steps it is given: every override absent, null, empty or set.
OverrideSteps ==
  { StepSpec(NameX, Absent, 1, p, s, u, b) :
      p \in {Undefined, Null, Arr("params2", 1)},
      s \in {Undefined, Obj("script2", 1)},
      u \in {Undefined, Str(""), Str("/new")},
      b \in {Undefined, Null, Obj("{}", 0), Arr("[]", 0), Str(""), Str("text2"),
             Obj("body2", 1), Arr("list", 2), Num("0"), Bool("false")} }

InitOverride ==
  /\ \E r \in OriginalRequests :
       heap = << Folder(<<"root">>, <<2>>), Folder(NameA, <<3>>),
                 Request("http-request", NameX, r) >>
  /\ heap0 = heap
  /\ original = 3
  /\ step \in OverrideSteps
  /\ overridden = Pending
  /\ NoAssembly
  /\ NoLookup
  /\ NoInjection
  /\ NoPipeline

ApplyOverrides ==
  /\ overridden = Pending
  /\ LET updated == applyRequestUpdates(heap, original, step)
     IN /\ heap' = updated.heap
        /\ overridden' = [threw |-> updated.threw, ref |-> updated.ref]
  /\ UNCHANGED <<pipeVars, heap0, asmVars, locVars, original, step, injVars>>

NextOverride == ApplyOverrides

SpecOverride == InitOverride /\ [][NextOverride]_vars

\* =================================================================
\* Properties
\* =================================================================

\* The steps of the flows read so far, in one sequence.
RECURSIVE StepsOf(_)
StepsOf(flows) ==
  IF flows = <<>> THEN <<>> ELSE Head(flows).requests \o StepsOf(Tail(flows))

\* The step's request can be located in the collection as it was parsed.
Locatable(s) ==
  acquireBrunoRequestByName(heap0, s.request_id, s.file_path, Root).threw = ""

NamesOf(items) == [k \in 1..Len(items) |-> items[k].name]
RequestIdsOf(steps) == [k \in 1..Len(steps) |-> steps[k].request_id]

C2_CollectionNeverMutated ==
  /\ Len(heap) >= Len(heap0)
  /\ \A a \in 1..Len(heap0) : heap[a] = heap0[a]

\* The same request was located and overridden twice (the same step, its url
\* set), and both results carry the override.
C2_Witness ==
  /\ Len(requests) = 2
  /\ requests[1].seq = 2
  /\ requests[2].seq = 2
  /\ requests[1].request # requests[2].request
  /\ heap[requests[1].request].request.url = Str("/new")
  /\ heap[requests[2].request].request.url = Str("/new")

\* C7: a returned master collection has one folder per flow, in the order
\* the flows were given, each named after its flow and carrying its seq and
\* root, and the folder's j-th item is named after the j-th step's
\* request_id and carries that step's seq, whatever the seq values.
C7_OutputMirrorsInputOrder ==
  (pc = "done" /\ returned.defined) =>
    /\ Len(returned.items) = Len(testFlowSpec)
    /\ \A f \in 1..Len(testFlowSpec) :
         LET folder == returned.items[f]
             flow == testFlowSpec[f]
         IN /\ folder.type = "folder"
            /\ folder.name = flow.flow_name
            /\ folder.seq = flow.seq
            /\ folder.root = flow.root
            /\ Len(folder.items) = Len(flow.requests)
            /\ \A k \in 1..Len(flow.requests) :
                 /\ folder.items[k].name = flow.requests[k].request_id
                 /\ folder.items[k].seq = flow.requests[k].seq

\* Two flows given with seq 2 then 1, the first with steps of seq 3 then 2.
C7_Witness ==
  /\ pc = "done"
  /\ returned.defined
  /\ Len(returned.items) = 2
  /\ returned.items[1].seq = 2
  /\ returned.items[2].seq = 1
  /\ Len(returned.items[1].items) = 2
  /\ returned.items[1].items[1].seq = 3
  /\ returned.items[1].items[2].seq = 2

\* ------------------------------------------------------------ lookups
\* The nodes below a list of children in depth-first pre-order, the children
\* of a folder visited in stored order.
RECURSIVE PreOrder(_, _)
PreOrder(h, items) ==
  IF items = <<>> THEN <<>>
  ELSE <<Head(items)>>
       \o (IF h[Head(items)].type = "folder" THEN PreOrder(h, h[Head(items)].items)
           ELSE <<>>)
       \o PreOrder(h, Tail(items))

\* The first node of that tag and name in pre-order, NoRef when there is none.
FirstInPreOrder(h, tag, name) ==
  LET order == PreOrder(h, h[Root].items)
      hits == {k \in 1..Len(order) : h[order[k]].type = tag /\ h[order[k]].name = name}
  IN IF hits = {} THEN NoRef
     ELSE order[CHOOSE k \in hits : \A m \in hits : k <= m]

\* Every node of the collection is tagged "folder" or "http".
DocumentedShape(h) ==
  \A k \in 1..Len(PreOrder(h, h[Root].items)) :
    h[PreOrder(h, h[Root].items)[k]].type \in {"folder", "http"}

Unscoped == located # Pending /\ ~TruthyText(query.folderName)
Scoped == located # Pending /\ TruthyText(query.folderName)

\* C5 as stated: on a collection of the documented shape (requests tagged
\* "http") that holds a request of the name, the unscoped lookup returns the
\* first request of that name in pre-order.
C5_FirstMatchOnDocumentedShape ==
  (/\ Unscoped
   /\ DocumentedShape(heap)
   /\ FirstInPreOrder(heap, "http", query.requestName) # NoRef)
  => located = Returned(FirstInPreOrder(heap, "http", query.requestName))

\* C5 amended: the unscoped lookup returns the first node tagged
\* "http-request" of that name in depth-first pre-order, and throws
\* RequestNotFound when no node tagged "http-request" has the name; a node
\* tagged "http" is never returned.
C5_FirstHttpRequestInPreOrder ==
  Unscoped =>
    located = IF FirstInPreOrder(heap, "http-request", query.requestName) # NoRef
              THEN Returned(FirstInPreOrder(heap, "http-request", query.requestName))
              ELSE Thrown("RequestNotFound")

\* The request found lies in a nested folder, ahead of a sibling of that
\* folder with the same name and tag.
C5_Witness ==
  /\ Unscoped
  /\ query.requestName = NameX
  /\ located = Returned(7)
  /\ heap[5].type = "http-request"
  /\ heap[5].name = NameX

\* The first child of node a with that name, NoRef when there is none.
ChildNamed(h, a, name) ==
  LET hits == {k \in 1..Len(h[a].items) : h[h[a].items[k]].name = name}
  IN IF a = NoRef \/ hits = {} THEN NoRef
     ELSE h[a].items[CHOOSE k \in hits : \A m \in hits : k <= m]

\* The node a path of segments leads to from node a.
RECURSIVE PathTarget(_, _, _)
PathTarget(h, a, segments) ==
  IF segments = <<>> \/ a = NoRef THEN a
  ELSE PathTarget(h, ChildNamed(h, a, Head(segments)), Tail(segments))

InItems(h, a, ref) == \E k \in 1..Len(h[a].items) : h[a].items[k] = ref

SourceOf == [params |-> "parameters", script |-> "script", url |-> "url", body |-> "body"]

\* An override is present; a body override is also non-null and not an
\* empty object-shaped value ({} or []).
EmptyObjectShaped(value) == value.t \in {"object", "array"} /\ value.n = 0

PassesPredicate(field, value) ==
  IF field = "body"
  THEN value.t # "undefined" /\ value.t # "null" /\ ~EmptyObjectShaped(value)
  ELSE value.t # "undefined"

Applied == overridden # Pending

\* C3: the request applyRequestUpdates returns differs from the one it was
\* given in no property of the node, not in `method`, and in params, script,
\* url or body only where the step's parameters, script, url or body passes
\* its predicate; a step with only url set changes url alone, to its value.
C3_OverrideFieldSelectivity ==
  Applied =>
    /\ overridden.threw = ""
    /\ LET before == heap0[original]
           after == heap[overridden.ref]
       IN /\ [after EXCEPT !.request = before.request] = before
          /\ DOMAIN after.request = DOMAIN before.request
          /\ after.request.method = before.request.method
          /\ \A field \in DOMAIN SourceOf :
               after.request[field] # before.request[field]
                 => PassesPredicate(SourceOf[field], step[SourceOf[field]])
          /\ (/\ step.url # Undefined
              /\ step.parameters = Undefined
              /\ step.script = Undefined
              /\ step.body = Undefined)
             => /\ after.request.url = step.url
                /\ after.request.params = before.request.params
                /\ after.request.script = before.request.script
                /\ after.request.body = before.request.body

\* A step with only url set was applied to a request that has params,
\* script and body, and changed its url.
C3_Witness ==
  /\ Applied
  /\ step.url = Str("/new")
  /\ step.parameters = Undefined /\ step.script = Undefined /\ step.body = Undefined
  /\ heap0[original].request.params # Undefined
  /\ heap0[original].request.script # Undefined
  /\ heap0[original].request.body = Obj("body", 2)
  /\ heap[overridden.ref].request.url # heap0[original].request.url

\* C4: a body override that is absent, null or an empty object-shaped value
\* leaves the body of the result equal to the original body; a body override
\* that is present, not null and not empty becomes the body of the result.
C4_EmptyBodyNoOp ==
  Applied =>
    LET before == heap0[original].request.body
        after == heap[overridden.ref].request.body
    IN /\ (step.body = Undefined \/ step.body = Null \/ EmptyObjectShaped(step.body))
            => after = before
       /\ (/\ step.body # Undefined
           /\ step.body # Null
           /\ ~EmptyObjectShaped(step.body)
           /\ step.body # Str(""))
            => after = step.body

\* A step with body {} was applied to a request that has a body.
C4_Witness ==
  /\ Applied
  /\ step.body = Obj("{}", 0)
  /\ heap0[original].request.body = Obj("body", 2)
  /\ heap[overridden.ref].request.body = Obj("body", 2)

\* --------------------------------------- the injector, call by call
NameC == <<"C">>
NameD == <<"D">>
NameG == <<"G">>

\* The values an example can carry; Undefined is an example without `value`.
ExampleValues ==
  {Undefined, Null, Bool("false"), Bool("true"), Num("0"), Num("7"), Str(""), Str("abc"),
   Obj("{\"id\":\"abc\"}", 1), Obj("{}", 0), Arr("[]", 0), Arr("[1]", 1)}

\* The operations an OpenAPI document can declare under operationId id:
\* without a request body, without content, without a JSON entry, without
\* an examples map, with an empty one, or with one or two examples.
OperationsFor(id) ==
  { Operation(id, FALSE, FALSE, FALSE, FALSE, <<>>),
    Operation(id, TRUE, FALSE, FALSE, FALSE, <<>>),
    Operation(id, TRUE, TRUE, FALSE, FALSE, <<>>),
    Operation(id, TRUE, TRUE, TRUE, FALSE, <<>>),
    Operation(id, TRUE, TRUE, TRUE, TRUE, <<>>) }
  \cup { Operation(id, TRUE, TRUE, TRUE, TRUE, <<Example("first", v)>>) :
           v \in ExampleValues }
  \cup { Operation(id, TRUE, TRUE, TRUE, TRUE,
                   <<Example("first", v), Example("second", Obj("{\"id\":\"xyz\"}", 1))>>) :
           v \in ExampleValues }

OperationD == Operation(NameD, TRUE, TRUE, TRUE, TRUE,
                        <<Example("only", Obj("{\"id\":\"xyz\"}", 1))>>)

\* The documents: a first path with no operation "C" or one of
\* OperationsFor, a second path with operation "D" or not, after an
\* operation that shares the id "C" or not.
OpenApiSpecs ==
  { [paths |-> <<c, later \o d>>] :
      c \in {<<>>} \cup {<<o>> : o \in OperationsFor(NameC)},
      later \in {<<>>, <<Operation(NameC, TRUE, TRUE, TRUE, TRUE,
                                   <<Example("late", Arr("[1]", 1))>>)>>},
      d \in {<<>>, <<OperationD>>} }

\* The converted collections: top-level folders of requests, body modes
\* "json" and "none", the payload empty or already set.
BrunoCollections ==
  { [name |-> <<"api">>,
     items |-> << BodyFolder(NameA, <<BodyRequest(NameC, "json", Str("")),
                                      BodyRequest(NameG, "none", Str("keep"))>>),
                  BodyFolder(NameB, <<BodyRequest(NameD, "json", Str("old"))>>) >>],
    [name |-> <<"api">>,
     items |-> << BodyFolder(NameA, <<>>),
                  BodyFolder(NameB, <<BodyRequest(NameD, "json", Str("")),
                                      BodyRequest(NameC, "json", Str("old"))>>) >>],
    [name |-> <<"api">>,
     items |-> << BodyFolder(NameA, <<BodyRequest(NameC, "json", Str("old"))>>) >>] }

\* The requests of a collection with their place: folder f, position r.
Places(collection) ==
  {<<f, r>> \in (1..Len(collection.items)) \X (1..2) :
     r <= Len(collection.items[f].items)}

At(collection, place) == collection.items[place[1]].items[place[2]]

InitInject ==
  /\ openApiSpec \in OpenApiSpecs
  /\ brunoCollection \in BrunoCollections
  /\ injected = <<>>
  /\ results = <<>>
  /\ heap = <<brunoCollection>>
  /\ heap0 = heap
  /\ NoAssembly
  /\ NoLookup
  /\ NoOverride
  /\ NoPipeline

\* What a call of updateRequestBodies hands back: threw, and `folders` as
\* the call left it.
Outcome(call) == [threw |-> call.threw, folders |-> call.heap[call.ref]]

\* updateRequestBodies(openApiSpec, brunoCollection), as line 40 calls it.
Inject ==
  /\ injected = <<>>
  /\ LET call == updateRequestBodies(heap, openApiSpec, Root) IN
       /\ heap' = call.heap
       /\ injected' = <<Outcome(call)>>
       /\ results' = <<call.ref>>
  /\ UNCHANGED <<pipeVars, heap0, asmVars, locVars, ovVars, openApiSpec, brunoCollection>>

\* updateRequestBodies on the collection the first call returned, as it was
\* returned, the document unchanged.
InjectAgain ==
  /\ Len(injected) = 1
  /\ injected[1].threw = ""
  /\ heap[results[1]] = injected[1].folders
  /\ LET call == updateRequestBodies(heap, openApiSpec, results[1]) IN
       /\ heap' = call.heap
       /\ injected' = Append(injected, Outcome(call))
       /\ results' = Append(results, call.ref)
  /\ UNCHANGED <<pipeVars, heap0, asmVars, locVars, ovVars, openApiSpec, brunoCollection>>

\* The caller of line 40 writes, later, into the collection it got back: a
\* new payload for one of its requests.
ChangeResult ==
  /\ Len(injected) = 1
  /\ injected[1].threw = ""
  /\ heap[results[1]] = injected[1].folders
  /\ \E place \in Places(heap[results[1]]) :
       heap' = [heap EXCEPT ![results[1]].items[place[1]].items[place[2]].request.body.json =
                              Str("changed")]
  /\ UNCHANGED <<pipeVars, heap0, asmVars, locVars, ovVars, injVars>>

NextInject == Inject \/ InjectAgain \/ ChangeResult

SpecInject == InitInject /\ [][NextInject]_vars

\* ------------------------------------------------------------ injection

\* The first operation of the document, paths then methods, with that id.
OperationsNamed(name) ==
  {k \in 1..Len(Flatten(openApiSpec.paths)) :
     Flatten(openApiSpec.paths)[k].operationId = name}

FirstOperationNamed(name) ==
  Flatten(openApiSpec.paths)[CHOOSE k \in OperationsNamed(name) :
                               \A m \in OperationsNamed(name) : k <= m]

\* No example can be extracted for the name: no operation has it, or the
\* first that has it lacks a request body, a JSON content entry or an
\* examples map.
ExtractionFails(name) ==
  \/ OperationsNamed(name) = {}
  \/ ~FirstOperationNamed(name).hasRequestBody
  \/ ~FirstOperationNamed(name).hasContent
  \/ ~FirstOperationNamed(name).hasJson
  \/ ~FirstOperationNamed(name).hasExamples

\* The first operation of that name declares an example that has a value.
DeclaresExample(name) ==
  /\ ~ExtractionFails(name)
  /\ FirstOperationNamed(name).examples # <<>>
  /\ FirstOperationNamed(name).examples[1].value # Undefined

\* C8: when no example can be extracted for a json-mode request,
\* updateRequestBodies does not throw, returns that request's body as it
\* was, and has injected every other json-mode request whose operation
\* declares an example.
C8_ExtractionFailureNonFatal ==
  \A place \in Places(brunoCollection) :
    (/\ Len(injected) >= 1
     /\ At(brunoCollection, place).request.body.mode = "json"
     /\ ExtractionFails(At(brunoCollection, place).name))
    => /\ injected[1].threw = ""
       /\ At(injected[1].folders, place) = At(brunoCollection, place)
       /\ \A other \in Places(brunoCollection) :
            (/\ At(brunoCollection, other).request.body.mode = "json"
             /\ DeclaresExample(At(brunoCollection, other).name)
             /\ Truthy(FirstOperationNamed(At(brunoCollection, other).name).examples[1].value))
            => At(injected[1].folders, other).request.body.json
                 = Str(JSONStringify(
                     FirstOperationNamed(At(brunoCollection, other).name).examples[1].value))

\* C9: when updateRequestBodies returns, every json-mode request whose
\* name is the operationId of an operation declaring an example carries, as
\* its payload, the serialization of the first example's value, whatever
\* that value is.
C9_FirstExampleInjected ==
  (Len(injected) >= 1 /\ injected[1].threw = "") =>
    \A place \in Places(brunoCollection) :
      (/\ At(brunoCollection, place).request.body.mode = "json"
       /\ DeclaresExample(At(brunoCollection, place).name))
      => At(injected[1].folders, place).request.body.json
           = Str(JSONStringify(
               FirstOperationNamed(At(brunoCollection, place).name).examples[1].value))

\* C10: when the first call of updateRequestBodies returns, a second call on
\* what it returned, with the same document, returns an equal collection.
C10_InjectionIdempotent ==
  (Len(injected) = 2 /\ injected[1].threw = "") => injected[2] = injected[1]

\* Both calls were made, and the first replaced a payload.
C10_Witness ==
  /\ Len(injected) = 2
  /\ injected[1].threw = ""
  /\ injected[1].folders # brunoCollection
  /\ \E place \in Places(brunoCollection) :
       /\ At(brunoCollection, place).request.body.json = Str("old")
       /\ At(injected[2].folders, place).request.body.json = Str("{\n  \"id\": \"abc\"\n}")

\* ------------------------------------------------------ path resolution
FolderResolved == resolved # Pending

\* C11: when some segment of the path, first, intermediate or last, names no
\* child of the node reached so far, acquireBrunoFolderByName throws the
\* folder-not-found error, and nothing else.
C11_MissingSegmentIsFolderNotFound ==
  (/\ FolderResolved
   /\ PathTarget(heap, Root, Split(query.folderName.chars)) = NoRef)
  => resolved = Thrown("FolderNotFound")

\* C14: the node a scoped lookup returns is a request node, never a folder.
C14_ScopedLookupReturnsRequest ==
  (Scoped /\ located.threw = "") => heap[located.ref].type \in RequestTypes

\* C15: when every segment of the path names a child (the first of that
\* name) of the node reached so far and the node the path ends at has no
\* items or none in it, acquireBrunoFolderByName throws the empty-folder
\* error; a node it returns has at least one child.
C15_EmptyFolderError ==
  FolderResolved =>
    LET target == PathTarget(heap, Root, Split(query.folderName.chars)) IN
    /\ (/\ target # NoRef
        /\ ~heap[target].hasItems \/ Len(heap[target].items) = 0)
       => resolved = Thrown("EmptyFolder")
    /\ resolved.threw = ""
       => /\ heap[resolved.ref].hasItems
          /\ Len(heap[resolved.ref].items) > 0

\* The path "A/X" ended at a folder "X" that holds nothing.
C15_Witness ==
  /\ FolderResolved
  /\ query.folderName = Text(<<"A", "/", "X">>)
  /\ heap[4] = Folder(NameX, <<>>)
  /\ resolved = Thrown("EmptyFolder")

\* ----------------------------------- testGenerationPipeline, await by await
\* A file-system operation of fs/promises and the path it is given
\* (path.join of the directory and the name).
Op(kind, path) == [kind |-> kind, path |-> path]

Numeral == <<"1", "2", "3", "4", "5">>

\* The loop of lines 32-47 from file i on: readFile, then writeFile.
RECURSIVE ConvertLoop(_, _)
ConvertLoop(i, n) ==
  IF i > n THEN <<>>
  ELSE <<Op("readFile", "oas/" \o Numeral[i] \o ".json"),
         Op("writeFile", "collections/" \o Numeral[i] \o ".json")>>
       \o ConvertLoop(i + 1, n)

\* The operations convertOpenApiToBruno("oas", "collections") awaits, in order.
ConvertOps ==
  <<Op("readdir", "oas"), Op("mkdir", "collections")>> \o ConvertLoop(1, oasFiles)

\* What readdir("collections") lists: the converted files, by name.
Listing ==
  SelectSeq([i \in 1..Len(Numeral) |-> "collections/" \o Numeral[i] \o ".json"],
            LAMBDA path : path \in files)

\* The operations mergeOpenApiCollections awaits: readdir, a readFile for
\* each of jsonFiles, the writeFile of line 99.
MergeOps ==
  <<Op("readdir", "collections")>>
  \o [i \in 1..Len(jsonFiles) |-> Op("readFile", jsonFiles[i])]
  \o <<Op("writeFile", "master-collection.json")>>

\* The operations createBrunoCollection awaits, those of createBrunoJson
\* first (lines 120, 123, 169), then the mkdir of line 524.
CreateOps ==
  <<Op("readFile", "test-flows.json"), Op("readFile", "master-collection.json"),
    Op("writeFile", "test-collection.json"), Op("mkdir", "suite")>>

\* createTestFlows from flow f on: mkdir of the flow's directory, then a
\* writeFile for each of its requests.
RECURSIVE FlowOps(_)
FlowOps(f) ==
  IF f > Len(testCollection.items) THEN <<>>
  ELSE <<Op("mkdir", "suite/flow" \o Numeral[f])>>
       \o [r \in 1..testCollection.items[f] |->
             Op("writeFile", "suite/flow" \o Numeral[f] \o "/request" \o Numeral[r] \o ".bru")]
       \o FlowOps(f + 1)

\* createEnvironments from environment e on: mkdir, then writeFile; nothing
\* when the collection has no `environments`.
RECURSIVE EnvironmentOps(_)
EnvironmentOps(e) ==
  IF ~testCollection.hasEnvironments \/ e > testCollection.environments THEN <<>>
  ELSE <<Op("mkdir", "suite/environments"),
         Op("writeFile", "suite/environments/env" \o Numeral[e] \o ".bru")>>
       \o EnvironmentOps(e + 1)

Operations(fn) ==
  CASE fn = "convertOpenApiToBruno" -> ConvertOps
    [] fn = "mergeOpenApiCollections" -> MergeOps
    [] fn = "createBrunoCollection" -> CreateOps
    [] fn = "createTestFlows" -> FlowOps(1)
    [] fn = "createEnvironments" -> EnvironmentOps(1)
    [] fn = "createBrunoRoot" -> <<Op("writeFile", "suite/collection.bru")>>
    [] fn = "createBrunoMetadata" -> <<Op("writeFile", "suite/bruno.json")>>

\* A call runs up to its first await, or to its end when it has none.
Start(fn) == IF Operations(fn) = <<>> THEN Fulfilled ELSE Awaiting(1)

\* The call goes on to operation `next`, or returns when it has no more.
After(fn, next) == IF next > Len(Operations(fn)) THEN Fulfilled ELSE Awaiting(next)

\* The paths there are once op has settled.
Written(op, ok) ==
  IF ok /\ op.kind \in {"writeFile", "mkdir"} THEN files \cup {op.path} ELSE files

\* The shapes of the collection createBrunoJson returns: the requests of
\* each flow, and the environments (none declared, none, one).
TestCollections ==
  { [items |-> items, hasEnvironments |-> env[1], environments |-> env[2]] :
      items \in {<<>>, <<1>>, <<2>>, <<1, 1>>},
      env \in {<<FALSE, 0>>, <<TRUE, 0>>, <<TRUE, 1>>} }

InitPipeline ==
  /\ oasFiles \in 0..MaxSpecs
  /\ testCollection \in TestCollections
  /\ jsonFiles = <<>>
  /\ files = {}
  /\ threads = [fn \in Stages \cup Writers |-> Idle]
  /\ pipeline = "idle"
  /\ heap = <<>>
  /\ heap0 = <<>>
  /\ NoAssembly
  /\ NoLookup
  /\ NoOverride
  /\ NoInjection

\* Line 543: testGenerationPipeline calls convertOpenApiToBruno and awaits it.
StartConvert ==
  /\ pipeline = "idle"
  /\ pipeline' = "convertOpenApiToBruno"
  /\ threads' = [threads EXCEPT !["convertOpenApiToBruno"] = Start("convertOpenApiToBruno")]
  /\ UNCHANGED <<heapVars, asmVars, locVars, ovVars, injVars,
                 oasFiles, testCollection, jsonFiles, files>>

\* The operation convertOpenApiToBruno awaits settles. A failed readdir or
\* mkdir ends the call (line 50), a failed read or a throw of the conversion
\* skips the file's write (line 44), a failed write is logged; the call
\* never rejects.
ConvertSettles ==
  /\ threads["convertOpenApiToBruno"].state = "running"
  /\ \E ok \in BOOLEAN, converts \in BOOLEAN :
       LET at == threads["convertOpenApiToBruno"].at
           op == ConvertOps[at]
       IN /\ files' = Written(op, ok)
          /\ threads' =
               [threads EXCEPT !["convertOpenApiToBruno"] =
                  IF op.kind \in {"readdir", "mkdir"}
                  THEN IF ok THEN After("convertOpenApiToBruno", at + 1) ELSE Fulfilled
                  ELSE IF op.kind = "readFile"
                  THEN After("convertOpenApiToBruno",
                             IF ok /\ converts THEN at + 1 ELSE at + 2)
                  ELSE After("convertOpenApiToBruno", at + 1)]
  /\ UNCHANGED <<heapVars, asmVars, locVars, ovVars, injVars,
                 oasFiles, testCollection, jsonFiles, pipeline>>

\* A pipeline that calls mergeOpenApiCollections without awaiting the
\* conversion.
StartMergeEarly ==
  /\ pipeline = "convertOpenApiToBruno"
  /\ pipeline' = "mergeOpenApiCollections"
  /\ threads' = [threads EXCEPT !["mergeOpenApiCollections"] = Awaiting(1)]
  /\ UNCHANGED <<heapVars, asmVars, locVars, ovVars, injVars,
                 oasFiles, testCollection, jsonFiles, files>>

\* Line 544: once the conversion's promise is fulfilled, the pipeline calls
\* mergeOpenApiCollections, which runs up to its readdir.
StartMerge ==
  /\ pipeline = "convertOpenApiToBruno"
  /\ threads["convertOpenApiToBruno"].state = "fulfilled"
  /\ pipeline' = "mergeOpenApiCollections"
  /\ threads' = [threads EXCEPT !["mergeOpenApiCollections"] = Awaiting(1)]
  /\ UNCHANGED <<heapVars, asmVars, locVars, ovVars, injVars,
                 oasFiles, testCollection, jsonFiles, files>>

\* The operation mergeOpenApiCollections awaits settles. readdir fills
\* jsonFiles; a failed read is logged (line 92); a failed readdir or write
\* is rethrown (line 104).
MergeSettles ==
  /\ threads["mergeOpenApiCollections"].state = "running"
  /\ \E ok \in BOOLEAN :
       LET at == threads["mergeOpenApiCollections"].at
           op == MergeOps[at]
       IN /\ files' = Written(op, ok)
          /\ jsonFiles' = IF op.kind = "readdir" /\ ok THEN Listing ELSE jsonFiles
          /\ threads' =
               [threads EXCEPT !["mergeOpenApiCollections"] =
                  IF op.kind = "readdir" THEN IF ok THEN Awaiting(2) ELSE Rejected
                  ELSE IF op.kind = "readFile" THEN Awaiting(at + 1)
                  ELSE IF ok THEN Fulfilled ELSE Rejected]
  /\ UNCHANGED <<heapVars, asmVars, locVars, ovVars, injVars,
                 oasFiles, testCollection, pipeline>>

\* Line 545: once the merge's promise is fulfilled, the pipeline calls
\* createBrunoCollection, which runs up to createBrunoJson's first readFile.
StartCreate ==
  /\ pipeline = "mergeOpenApiCollections"
  /\ threads["mergeOpenApiCollections"].state = "fulfilled"
  /\ pipeline' = "createBrunoCollection"
  /\ threads' = [threads EXCEPT !["createBrunoCollection"] = Awaiting(1)]
  /\ UNCHANGED <<heapVars, asmVars, locVars, ovVars, injVars,
                 oasFiles, testCollection, jsonFiles, files>>

\* The operation createBrunoCollection awaits settles. A failure inside
\* createBrunoJson (a read, the assembly, the write) makes it return
\* undefined, and line 523 throws; a failed mkdir of line 524 rejects too.
\* After the mkdir, lines 526-529 call the four writers, each of which runs
\* up to its first await, and the function returns.
CreateSettles ==
  /\ threads["createBrunoCollection"].state = "running"
  /\ \E ok \in BOOLEAN, assembles \in BOOLEAN :
       LET at == threads["createBrunoCollection"].at
           op == CreateOps[at]
       IN /\ files' = Written(op, ok)
          /\ threads' =
               IF ~ok \/ (at = 2 /\ ~assembles)
               THEN [threads EXCEPT !["createBrunoCollection"] = Rejected]
               ELSE IF at < Len(CreateOps)
               THEN [threads EXCEPT !["createBrunoCollection"] = Awaiting(at + 1)]
               ELSE [fn \in Stages \cup Writers |->
                       IF fn \in Writers THEN Start(fn)
                       ELSE IF fn = "createBrunoCollection" THEN Fulfilled
                       ELSE threads[fn]]
  /\ UNCHANGED <<heapVars, asmVars, locVars, ovVars, injVars,
                 oasFiles, testCollection, jsonFiles, pipeline>>

\* The operation a writer awaits settles: the writer goes on to its next
\* one, returns, or, no try around it, rejects.
WriterSettles(fn) ==
  /\ threads[fn].state = "running"
  /\ \E ok \in BOOLEAN :
       /\ files' = Written(Operations(fn)[threads[fn].at], ok)
       /\ threads' = [threads EXCEPT ![fn] =
                        IF ok THEN After(fn, threads[fn].at + 1) ELSE Rejected]
  /\ UNCHANGED <<heapVars, asmVars, locVars, ovVars, injVars,
                 oasFiles, testCollection, jsonFiles, pipeline>>

\* The stage the pipeline awaits rejected: so does the pipeline.
PipelineRejects ==
  /\ pipeline \in Stages
  /\ threads[pipeline].state = "rejected"
  /\ pipeline' = "rejected"
  /\ UNCHANGED <<heapVars, asmVars, locVars, ovVars, injVars,
                 oasFiles, testCollection, jsonFiles, files, threads>>

\* createBrunoCollection's promise is fulfilled: the pipeline returns.
PipelineResolves ==
  /\ pipeline = "createBrunoCollection"
  /\ threads["createBrunoCollection"].state = "fulfilled"
  /\ pipeline' = "fulfilled"
  /\ UNCHANGED <<heapVars, asmVars, locVars, ovVars, injVars,
                 oasFiles, testCollection, jsonFiles, files, threads>>

NextPipeline ==
  \/ StartConvert
  \/ ConvertSettles
  \/ StartMerge
  \/ MergeSettles
  \/ StartCreate
  \/ CreateSettles
  \/ \E fn \in Writers : WriterSettles(fn)
  \/ PipelineRejects
  \/ PipelineResolves

SpecPipeline == InitPipeline /\ [][NextPipeline]_vars

\* ------------------------------------------------- the pipeline's promises
\* The operations that were started and have not settled, with their caller.
InFlight ==
  { [by |-> fn, op |-> Operations(fn)[threads[fn].at]] :
      fn \in {f \in Stages \cup Writers : threads[f].state = "running"} }

\* Everything createTestFlows, createEnvironments, createBrunoRoot and
\* createBrunoMetadata are to write or make.
CollectionPaths ==
  UNION { {Operations(fn)[k].path : k \in 1..Len(Operations(fn))} : fn \in Writers }

\* C12: when the promise of createBrunoCollection (and with it the
\* pipeline's) is fulfilled, every flow directory, request file, environment
\* file, collection.bru and bruno.json has been written; and when one of
\* those writes failed, that promise is rejected.
C12_ResolvesWhenCreated ==
  /\ threads["createBrunoCollection"].state = "fulfilled" => CollectionPaths \subseteq files
  /\ pipeline = "fulfilled" => CollectionPaths \subseteq files
  /\ (\E fn \in Writers : threads[fn].state = "rejected")
     => threads["createBrunoCollection"].state = "rejected"

\* C16: the three stages run one after the other. While the merge runs or
\* after it ran, the conversion has returned; while createBrunoCollection
\* runs or after it ran, the merge has returned and master-collection.json
\* is written; and no two stages have an operation in flight together.
C16_StagesInSequence ==
  /\ threads["mergeOpenApiCollections"].state # "idle"
     => threads["convertOpenApiToBruno"].state = "fulfilled"
  /\ threads["createBrunoCollection"].state # "idle"
     => /\ threads["mergeOpenApiCollections"].state = "fulfilled"
        /\ "master-collection.json" \in files
  /\ \A a \in InFlight, b \in InFlight :
       (a.by \in Stages /\ b.by \in Stages) => a.by = b.by

\* createBrunoJson reads master-collection.json, after a conversion that
\* wrote the first of two files and not the second.
C16_Witness ==
  /\ threads["createBrunoCollection"] = Awaiting(2)
  /\ oasFiles = 2
  /\ "collections/1.json" \in files
  /\ "collections/2.json" \notin files
  /\ jsonFiles = <<"collections/1.json">>

\* --------------------------------------------------- purity of injection
\* The collection the k-th call of updateRequestBodies was handed.
InputOf(k) == IF k = 1 THEN brunoCollection ELSE injected[k - 1].folders

\* C13: updateRequestBodies leaves the collection it was handed as it was,
\* whether it returns or throws, and whatever is written later into the
\* collection it returned; and every request whose body mode is not "json"
\* is in the returned collection what it is in the one handed in.
C13_InjectionPureAndSelective ==
  /\ heap[Root] = brunoCollection
  /\ Len(injected) = 2 => heap[results[1]] = injected[1].folders
  /\ \A k \in 1..Len(injected) :
       injected[k].threw = "" =>
         \A place \in Places(InputOf(k)) :
           At(InputOf(k), place).request.body.mode # "json"
           => At(injected[k].folders, place) = At(InputOf(k), place)

\* The call replaced a payload and left a request of mode "none" alone, and
\* the collection it returned was written into afterwards.
C13_Witness ==
  /\ Len(injected) = 1
  /\ injected[1].threw = ""
  /\ injected[1].folders # brunoCollection
  /\ heap[results[1]] # injected[1].folders
  /\ \E place \in Places(brunoCollection) :
       At(brunoCollection, place).request.body.mode = "none"

====
